---- MODULE Spec2Model ----
(***************************************************************************)
(* Blood Donor Alert Platform (src/main.py): the store (SQLite tables      *)
(* donors, hospitals, blood_requests, donor_responses), the registration   *)
(* handlers, the proximity-ranked dispatch of create_blood_request and     *)
(* donor_respond.                                                          *)
(*                                                                         *)
(* Every handler is an `async def` without an await, so handlers run one   *)
(* after the other on the event loop: create_blood_request is modelled as  *)
(* the sequence of its statement groups (pc), and no other handler is      *)
(* enabled while pc # "idle".  A sqlite3 connection opens a transaction    *)
(* at the first INSERT; rows reach the tables only at conn.commit(), and   *)
(* conn.close() without a commit discards them.                            *)
(*                                                                         *)
(* Coordinates: all points are valid, lie on one meridian and have whole   *)
(* latitudes.  On one meridian the haversine formula of calculate_distance   *)
(* gives R * |lat2 - lat1| (in radians), so distances are kept in units of *)
(* one degree of arc (R * pi / 180 km).                                    *)
(*                                                                         *)
(* Columns no modelled statement reads (name, email, address, ...) are     *)
(* left out.  phone is UNIQUE NOT NULL, so a donor's phone identifies the  *)
(* donor: the recipient of an SMS is recorded as the donor id.  A          *)
(* registration rejected for a duplicate phone/email leaves the store as   *)
(* it was.                                                                 *)
(***************************************************************************)
EXTENDS Integers, Sequences, FiniteSets, TLC

\* ------------------------------------------------------------- bounds
MaxDonors == 3
MaxHospitals == 1
MaxCalls == 1
MaxResponds == 1
MaxLat == 2
MaxUnits == 2

BloodTypes == {"O+", "O-"}
Latitudes == 0..MaxLat
\* BloodRequest.units_needed is a plain int: zero and negatives are accepted
UnitsNeeded == (0 - MaxUnits)..MaxUnits
HospitalIds == 1..(MaxHospitals + 1)
\* DonorResponse.response: "available", "not_available"
Responses == {"available", "not_available"}
\* what the notification transport's send can report
TransportOutcomes == BOOLEAN

VARIABLES
    donors,               \* table donors (committed rows, in rowid order)
    hospitals,            \* table hospitals
    blood_requests,       \* table blood_requests
    donor_responses,      \* table donor_responses
    sms_log,              \* the send_sms calls of the latest create_blood_request call
    last,                 \* the outcome of the latest finished create_blood_request call
    calls,                \* number of create_blood_request calls so far
    responds,             \* number of donor_respond calls so far
    pc,                   \* position inside create_blood_request
    request,              \* its argument
    request_id,           \* cursor.lastrowid after the INSERT
    hospital,             \* cursor.fetchone() of the hospital lookup
    all_eligible_donors,  \* ids of the rows of the donors query
    donors_with_distance, \* the sorted list
    top_donors,
    all_other_donors,
    sent,                 \* iterations of the top_donors loop done
    pending_requests,     \* uncommitted INSERTs of the open connection
    pending_responses

store == <<donors, hospitals, blood_requests, donor_responses>>
locals == <<request, request_id, hospital, all_eligible_donors, donors_with_distance,
            top_donors, all_other_donors, sent, pending_requests, pending_responses>>
vars == <<donors, hospitals, blood_requests, donor_responses, sms_log, last, calls, responds,
          pc, request, request_id, hospital, all_eligible_donors, donors_with_distance,
          top_donors, all_other_donors, sent, pending_requests, pending_responses>>

\* ------------------------------------------------------------- helpers
Min(a, b) == IF a <= b THEN a ELSE b
Max(a, b) == IF a >= b THEN a ELSE b

NoRequest == [hospital_id |-> 0, blood_type |-> "", units_needed |-> 0]
NoHospital == [id |-> 0, latitude |-> 0]

\* calculate_distance on one meridian, in degrees of arc
calculate_distance(lat1, lat2) == IF lat2 >= lat1 THEN lat2 - lat1 ELSE lat1 - lat2

\* SELECT * FROM hospitals WHERE id = ? ; fetchone()
\* (faulty variant: the id is not compared)
fetch_hospital_any(hid) == IF hospitals = <<>> THEN NoHospital ELSE hospitals[1]
fetch_hospital(hid) ==
    IF \E k \in DOMAIN hospitals : hospitals[k].id = hid
    THEN hospitals[CHOOSE k \in DOMAIN hospitals : hospitals[k].id = hid]
    ELSE NoHospital

\* SELECT * FROM donors WHERE blood_type = ? AND is_active = 1
\* (faulty variant: is_active is not tested)
is_eligible_any_status(d, blood_type) == d.blood_type = blood_type
is_eligible(d, blood_type) == d.blood_type = blood_type /\ d.is_active = 1
select_eligible(blood_type) == SelectSeq(donors, LAMBDA d : is_eligible(d, blood_type))

\* the loop building donors_with_distance (before the sort)
with_distance(rows, h) ==
    [k \in DOMAIN rows |->
        [donor_id |-> rows[k].id,
         distance |-> calculate_distance(h.latitude, rows[k].latitude)]]

\* list.sort(key=distance): stable, ascending
insert_sorted(x, s) ==
    LET after == {k \in DOMAIN s : s[k].distance > x.distance}
        pos == IF after = {} THEN Len(s) + 1
               ELSE CHOOSE k \in after : \A j \in after : k <= j
    IN SubSeq(s, 1, pos - 1) \o <<x>> \o SubSeq(s, pos, Len(s))
RECURSIVE sort_by_distance_rec(_)
sort_by_distance_rec(s) ==
    IF s = <<>> THEN <<>>
    ELSE insert_sorted(s[Len(s)], sort_by_distance_rec(SubSeq(s, 1, Len(s) - 1)))
\* (faulty variant: the list is left in query order)
unsorted(s) == s
sort_by_distance(s) == sort_by_distance_rec(s)

\* Python slice bound: s[:n] ends, and s[n:] starts, at this offset
\* (faulty variant: one element too many for n >= 0)
slice_index_off_by_one(len, n) == IF n < 0 THEN Max(len + n, 0) ELSE Min(n + 1, len)
slice_index(len, n) == IF n < 0 THEN Max(len + n, 0) ELSE Min(n, len)
\* (faulty variant: 0 taken as 'no limit')
slice_to_zero_means_all(s, n) ==
    IF n = 0 THEN s ELSE SubSeq(s, 1, slice_index(Len(s), n))
slice_to(s, n) == SubSeq(s, 1, slice_index(Len(s), n))
\* (faulty variant: the first of the remaining donors is skipped)
slice_from_skipping(s, n) == SubSeq(s, slice_index(Len(s), n) + 2, Len(s))
slice_from(s, n) == SubSeq(s, slice_index(Len(s), n) + 1, Len(s))

\* conn.commit(): the pending rows reach the table
commit(table, pending) == table \o pending
\* conn.close() with no commit: the pending rows are discarded
\* (faulty variant: the connection commits each statement)
close_autocommitted(table, pending) == table \o pending
close_without_commit(table, pending) == table

\* the for loop over top_donors goes on to the next donor whatever send_sms returned
\* (faulty variant: the loop ends at the first failed send)
stop_after_failed_send(n, ok) == IF ok THEN n + 1 ELSE Len(top_donors)
next_iteration(n, ok) == n + 1

response_row(rid, d, verdict) == [request_id |-> rid, donor_id |-> d.donor_id, response |-> verdict]
other_rows(rid, s) == [k \in DOMAIN s |-> response_row(rid, s[k], "not_selected")]

Outcome(status) ==
    [status |-> status, request_id |-> request_id, hospital_id |-> request.hospital_id,
     blood_type |-> request.blood_type, units_needed |-> request.units_needed,
     found |-> hospital # NoHospital,
     eligible |-> all_eligible_donors, ranked |-> donors_with_distance,
     top |-> top_donors, other |-> all_other_donors]

NoOutcome ==
    [status |-> 0, request_id |-> 0, hospital_id |-> 0, blood_type |-> "", units_needed |-> 0,
     found |-> FALSE, eligible |-> <<>>, ranked |-> <<>>, top |-> <<>>, other |-> <<>>]

\* ------------------------------------------------------------- initial state
\* init_db creates the tables IF NOT EXISTS: the database file may already hold
\* a donor deactivated out of band (is_active = 0); the handlers only ever
\* insert donors with the column's default, 1.
SeedDonors ==
    {<<>>} \cup {<<[id |-> 1, blood_type |-> b, latitude |-> l, is_active |-> 0]>> :
                    b \in BloodTypes, l \in Latitudes}

IdleLocals ==
    /\ request = NoRequest
    /\ request_id = 0
    /\ hospital = NoHospital
    /\ all_eligible_donors = <<>>
    /\ donors_with_distance = <<>>
    /\ top_donors = <<>>
    /\ all_other_donors = <<>>
    /\ sent = 0
    /\ pending_requests = <<>>
    /\ pending_responses = <<>>

Init ==
    /\ donors \in SeedDonors
    /\ hospitals = <<>>
    /\ blood_requests = <<>>
    /\ donor_responses = <<>>
    /\ sms_log = <<>>
    /\ last = NoOutcome
    /\ calls = 0
    /\ responds = 0
    /\ pc = "idle"
    /\ IdleLocals

\* ------------------------------------------------------------- handlers
register_donor(blood_type, latitude) ==
    /\ pc = "idle"
    /\ Len(donors) < MaxDonors
    /\ donors' = Append(donors, [id |-> Len(donors) + 1, blood_type |-> blood_type,
                                 latitude |-> latitude, is_active |-> 1])
    /\ UNCHANGED <<hospitals, blood_requests, donor_responses, sms_log, last, calls, responds, pc>>
    /\ UNCHANGED locals

register_hospital(latitude) ==
    /\ pc = "idle"
    /\ Len(hospitals) < MaxHospitals
    /\ hospitals' = Append(hospitals, [id |-> Len(hospitals) + 1, latitude |-> latitude])
    /\ UNCHANGED <<donors, blood_requests, donor_responses, sms_log, last, calls, responds, pc>>
    /\ UNCHANGED locals

donor_respond(rid, did, response) ==
    /\ pc = "idle"
    /\ responds < MaxResponds
    /\ donor_responses' = commit(donor_responses,
                                 <<[request_id |-> rid, donor_id |-> did, response |-> response]>>)
    /\ responds' = responds + 1
    /\ UNCHANGED <<donors, hospitals, blood_requests, sms_log, last, calls, pc>>
    /\ UNCHANGED locals

\* create_blood_request, lines 259-273: INSERT INTO blood_requests, lastrowid
cbr_insert(hid, blood_type, units_needed) ==
    /\ pc = "idle"
    /\ calls < MaxCalls
    /\ calls' = calls + 1
    /\ sms_log' = <<>>
    /\ request' = [hospital_id |-> hid, blood_type |-> blood_type, units_needed |-> units_needed]
    /\ request_id' = Len(blood_requests) + 1
    /\ pending_requests' = <<[id |-> Len(blood_requests) + 1, hospital_id |-> hid,
                              blood_type |-> blood_type, units_needed |-> units_needed]>>
    /\ pc' = "lookup"
    /\ UNCHANGED <<store, last, responds, hospital, all_eligible_donors,
                   donors_with_distance, top_donors, all_other_donors, sent, pending_responses>>

ResetLocals ==
    /\ request' = NoRequest
    /\ request_id' = 0
    /\ hospital' = NoHospital
    /\ all_eligible_donors' = <<>>
    /\ donors_with_distance' = <<>>
    /\ top_donors' = <<>>
    /\ all_other_donors' = <<>>
    /\ sent' = 0
    /\ pending_requests' = <<>>
    /\ pending_responses' = <<>>

\* lines 275-281: hospital lookup; not found: close, HTTP 404
cbr_not_found ==
    /\ pc = "lookup"
    /\ fetch_hospital(request.hospital_id) = NoHospital
    /\ blood_requests' = close_without_commit(blood_requests, pending_requests)
    /\ donor_responses' = close_without_commit(donor_responses, pending_responses)
    /\ last' = Outcome(404)
    /\ pc' = "idle"
    /\ ResetLocals
    /\ UNCHANGED <<donors, hospitals, sms_log, calls, responds>>

\* lines 275-304: hospital found; eligible donors, distances, sort, the two slices
cbr_select ==
    /\ pc = "lookup"
    /\ fetch_hospital(request.hospital_id) # NoHospital
    /\ LET h == fetch_hospital(request.hospital_id)
           rows == select_eligible(request.blood_type)
           ranked == sort_by_distance(with_distance(rows, h))
       IN /\ hospital' = h
          /\ all_eligible_donors' = [k \in DOMAIN rows |-> rows[k].id]
          /\ donors_with_distance' = ranked
          /\ top_donors' = slice_to(ranked, request.units_needed)
          /\ all_other_donors' = slice_from(ranked, request.units_needed)
    /\ pc' = "top"
    /\ UNCHANGED <<store, sms_log, last, calls, responds, request, request_id, sent,
                   pending_requests, pending_responses>>

\* lines 307-316: one iteration of the top_donors loop: INSERT 'available', send_sms
cbr_notify(ok) ==
    /\ pc = "top"
    /\ sent < Len(top_donors)
    /\ pending_responses' = Append(pending_responses,
                                   response_row(request_id, top_donors[sent + 1], "available"))
    /\ sms_log' = Append(sms_log, [request_id |-> request_id,
                                   donor_id |-> top_donors[sent + 1].donor_id,
                                   blood_type |-> request.blood_type,
                                   ok |-> ok])
    /\ sent' = next_iteration(sent, ok)
    /\ UNCHANGED <<store, last, calls, responds, pc, request, request_id, hospital,
                   all_eligible_donors, donors_with_distance, top_donors, all_other_donors,
                   pending_requests>>

\* lines 318-322: the all_other_donors loop: INSERT 'not_selected'
cbr_others ==
    /\ pc = "top"
    /\ sent >= Len(top_donors)
    /\ pending_responses' = pending_responses \o other_rows(request_id, all_other_donors)
    /\ pc' = "commit"
    /\ UNCHANGED <<store, sms_log, last, calls, responds, request, request_id, hospital,
                   all_eligible_donors, donors_with_distance, top_donors, all_other_donors,
                   sent, pending_requests>>

\* lines 324-332: commit, close, return
cbr_commit ==
    /\ pc = "commit"
    /\ blood_requests' = commit(blood_requests, pending_requests)
    /\ donor_responses' = commit(donor_responses, pending_responses)
    /\ last' = Outcome(200)
    /\ pc' = "idle"
    /\ ResetLocals
    /\ UNCHANGED <<donors, hospitals, sms_log, calls, responds>>

Next ==
    \/ \E b \in BloodTypes, l \in Latitudes : register_donor(b, l)
    \/ \E l \in Latitudes : register_hospital(l)
    \/ \E r \in 1..MaxCalls, d \in 1..MaxDonors, x \in Responses : donor_respond(r, d, x)
    \/ \E h \in HospitalIds, b \in BloodTypes, n \in UnitsNeeded : cbr_insert(h, b, n)
    \/ cbr_not_found
    \/ cbr_select
    \/ \E ok \in TransportOutcomes : cbr_notify(ok)
    \/ cbr_others
    \/ cbr_commit

Spec == Init /\ [][Next]_vars

\* ------------------------------------------------------------- properties
Range(s) == {s[k] : k \in DOMAIN s}
Succeeded == pc = "idle" /\ last.status = 200
NotFound == pc = "idle" /\ last.status = 404
NoSuchHospital(hid) == ~ \E k \in DOMAIN hospitals : hospitals[k].id = hid
IsSorted(s) == \A a, b \in DOMAIN s : a < b => s[a].distance <= s[b].distance
Abs(n) == IF n >= 0 THEN n ELSE 0 - n
EngineVerdicts == {"available", "not_selected"}
\* the active donors of the table whose blood type is exactly bt
ActiveOfType(bt) ==
    {donors[k].id : k \in {j \in DOMAIN donors : donors[j].is_active = 1 /\ donors[j].blood_type = bt}}
ActiveAndMatches(did, bt) ==
    /\ did \in DOMAIN donors
    /\ donors[did].is_active = 1
    /\ donors[did].blood_type = bt
\* the rows of table t for request rid and donor did that carry an engine verdict
EngineRows(t, rid, did) ==
    {k \in DOMAIN t : t[k].request_id = rid /\ t[k].donor_id = did /\ t[k].response \in EngineVerdicts}
Notified(did) == \E k \in DOMAIN sms_log : sms_log[k].donor_id = did
SomeSendFailed == \E k \in DOMAIN sms_log : ~ sms_log[k].ok

\* C1: a create_blood_request call whose hospital_id matches no hospital ends
\* with 404, and that call has inserted no donor_responses row (pending or
\* committed) and made no send_sms call, whatever donors are in the pool.
C1_NotFoundWritesNothing ==
    [][(pc = "lookup" /\ NoSuchHospital(request.hospital_id)) =>
          /\ pc' = "idle"
          /\ last'.status = 404
          /\ pending_responses = <<>>
          /\ donor_responses' = donor_responses
          /\ sms_log = <<>>
          /\ sms_log' = <<>>]_vars
C1_Witness ==
    /\ NotFound
    /\ ActiveOfType(last.blood_type) # {}
    /\ hospitals # <<>>

\* C2 (as stated): for every units_needed N, |selected| + |not_selected| =
\* |eligible| and |selected| = min(N, |eligible|).
C2_Original ==
    Succeeded =>
        /\ Len(last.top) + Len(last.other) = Len(last.eligible)
        /\ Len(last.top) = Min(last.units_needed, Len(last.eligible))
\* C2 (amended): the two partitions always add up to the eligible set; for
\* every N >= 0, |selected| = min(N, |eligible|), and when fewer than N
\* eligible donors exist selected is the whole ranked sequence and
\* not_selected is empty.
C2_Partition ==
    Succeeded =>
        /\ Len(last.top) + Len(last.other) = Len(last.eligible)
        /\ last.top \o last.other = last.ranked
        /\ last.units_needed >= 0 =>
              /\ Len(last.top) = Min(last.units_needed, Len(last.eligible))
              /\ Len(last.eligible) < last.units_needed =>
                    (last.top = last.ranked /\ last.other = <<>>)
C2_Witness ==
    /\ Succeeded
    /\ last.units_needed = 2
    /\ Len(last.eligible) = 3
    /\ Len(last.top) = 2
    /\ Len(last.other) = 1

\* C3: selected is sorted ascending by the distance to the requesting
\* hospital, and every distance in selected is <= every distance in
\* not_selected.
C3_ClosestFirst ==
    Succeeded =>
        /\ \A k \in DOMAIN last.ranked :
              last.ranked[k].distance =
                  Abs(donors[last.ranked[k].donor_id].latitude - hospitals[last.hospital_id].latitude)
        /\ IsSorted(last.top)
        /\ \A a \in DOMAIN last.top, b \in DOMAIN last.other :
              last.top[a].distance <= last.other[b].distance
C3_Witness ==
    /\ Succeeded
    /\ Len(last.top) = 2
    /\ Len(last.other) = 1
    /\ last.top[1].distance < last.top[2].distance
    /\ last.top[2].distance < last.other[1].distance
    /\ last.eligible[1] = last.other[1].donor_id

\* C4: every donor sent a notification, or given a decision row by
\* create_blood_request, is active and has exactly the request's blood type.
C4_OnlyEligibleReached ==
    LET bt == IF pc = "idle" THEN last.blood_type ELSE request.blood_type
    IN /\ \A k \in DOMAIN sms_log :
             /\ sms_log[k].blood_type = bt
             /\ ActiveAndMatches(sms_log[k].donor_id, bt)
       /\ \A k \in DOMAIN pending_responses : ActiveAndMatches(pending_responses[k].donor_id, bt)
       /\ Succeeded =>
             \A k \in DOMAIN last.ranked : ActiveAndMatches(last.ranked[k].donor_id, bt)
C4_Witness ==
    /\ Succeeded
    /\ sms_log # <<>>
    /\ last.other # <<>>
    /\ \E k \in DOMAIN donors : donors[k].is_active = 0 /\ donors[k].blood_type = last.blood_type

\* C5: the commit of one successful run adds to donor_responses exactly one
\* row per eligible donor, all with the run's request_id, and no row for a
\* donor that is not eligible.
C5_OneRowPerEligible ==
    [][pc = "commit" =>
          LET new == SubSeq(donor_responses', Len(donor_responses) + 1, Len(donor_responses'))
              eligible == ActiveOfType(request.blood_type)
          IN /\ SubSeq(donor_responses', 1, Len(donor_responses)) = donor_responses
             /\ \A k \in DOMAIN new :
                   /\ new[k].request_id = request_id
                   /\ new[k].donor_id \in eligible
                   /\ new[k].response \in EngineVerdicts
             /\ \A d \in eligible : Cardinality(EngineRows(new, request_id, d)) = 1]_vars
C5_Witness ==
    /\ Succeeded
    /\ last.top # <<>>
    /\ last.other # <<>>
    /\ \A d \in Range(last.eligible) :
          Cardinality(EngineRows(donor_responses, last.request_id, d)) = 1

\* C6 (as stated): for each request, the rows carrying an engine verdict
\* ('available' or 'not_selected') are in 1:1 correspondence with the
\* eligible set computed at creation, and a later donor_respond call never
\* adds a second such row: once every eligible donor of the latest request
\* has exactly one engine-verdict row, no step changes that.
C6_EngineVerdictsOneToOne ==
    [][(/\ Succeeded
        /\ last.units_needed >= 1
        /\ \A d \in Range(last.eligible) :
              Cardinality(EngineRows(donor_responses, last.request_id, d)) = 1)
       => (\A d \in Range(last'.eligible) :
              Cardinality(EngineRows(donor_responses', last'.request_id, d)) = 1)]_vars

\* C7 (as stated): when units_needed is 0 or the eligible set is empty, both
\* partitions are empty and no notification is sent.
C7_Original ==
    (Succeeded /\ (last.units_needed = 0 \/ last.eligible = <<>>)) =>
        /\ last.top = <<>>
        /\ last.other = <<>>
        /\ sms_log = <<>>
\* C7 (amended): when units_needed is 0, selected is empty, not_selected is
\* the whole ranked eligible sequence and no notification is sent; when the
\* eligible set is empty both partitions are empty and no notification is
\* sent; neither case ends in an error.
C7_ZeroOrEmpty ==
    /\ (pc \in {"top", "commit"} /\ (request.units_needed = 0 \/ all_eligible_donors = <<>>)) =>
          (top_donors = <<>> /\ sms_log = <<>>)
    /\ (Succeeded /\ last.units_needed = 0) =>
          (last.top = <<>> /\ last.other = last.ranked /\ sms_log = <<>>
           /\ Len(last.other) = Len(last.eligible))
    /\ (Succeeded /\ last.eligible = <<>>) =>
          (last.top = <<>> /\ last.other = <<>> /\ sms_log = <<>>)
C7_Witness ==
    /\ Succeeded
    /\ last.units_needed = 0
    /\ Len(last.other) >= 2

C9_DecisionsCommittedBeforeSend ==
    (\E k \in DOMAIN sms_log : sms_log[k].ok) =>
        LET rid == IF pc = "idle" THEN last.request_id ELSE request_id
            eligible == IF pc = "idle" THEN last.eligible ELSE all_eligible_donors
        IN \A d \in Range(eligible) : EngineRows(donor_responses, rid, d) # {}

\* C10: a call that fails for a missing hospital leaves the committed
\* blood_requests and donor_responses tables as they were before the call:
\* the INSERT of the request stays pending and is discarded at close.
C10_NotFoundAtomic ==
    [][/\ (pc = "idle" /\ pc' = "lookup") =>
            /\ blood_requests' = blood_requests
            /\ donor_responses' = donor_responses
            /\ Len(pending_requests') = 1
       /\ (pc = "lookup" /\ NoSuchHospital(request.hospital_id)) =>
            /\ blood_requests' = blood_requests
            /\ donor_responses' = donor_responses
            /\ pending_requests' = <<>>]_vars
C10_Witness ==
    /\ NotFound
    /\ last.request_id = Len(blood_requests) + 1
    /\ donor_responses # <<>>

====
